---- MODULE Spec2Model ----
(***************************************************************************)
(* Model of scribe_data/load/data_to_sqlite.py: the script that turns the  *)
(* per-language JSON word files into one SQLite database per language and  *)
(* derives the autocomplete_lexicon table.                                 *)
(*                                                                         *)
(* Text values (headwords, forms, emoji) are sequences of one-character    *)
(* strings, so that LENGTH, SUBSTR, UPPER, LOWER and LIKE '%c%' are        *)
(* computed as SQLite computes them.  Column names and slot names are      *)
(* identifiers and are kept as plain strings.  The three curly quotes of   *)
(* the WHERE clause are the characters "ldquo", "bdquo" and "rdquo".       *)
(***************************************************************************)
EXTENDS Integers, Sequences, FiniteSets, TLC

VARIABLES
    argv,                     \* sys.argv
    current_languages,        \* keys of update_files/total_data.json
    et_files,                 \* ../extract_transform/<lang>/formatted_data
    files,                    \* databases/<ISO>LanguageData.sqlite, per language
    languages,                \* the validated subset, or None
    language_word_type_dict,  \* language -> available word types, in order
    pc,                       \* position of the script
    li,                       \* position of the language loop
    wi,                       \* position of the word type loop
    ri,                       \* position of the row loop
    json_data,                \* the blob of the word type being loaded
    cols,                     \* column list of the word type being loaded
    keys,                     \* the row last built
    conn,                     \* the sqlite3 connection of the current language
    error                     \* the exception that ended the run, if any

vars == <<argv, current_languages, et_files, files, languages,
          language_word_type_dict, pc, li, wi, ri, json_data, cols, keys,
          conn, error>>

----------------------------------------------------------------------------
(* Bounds of the model.                                                    *)

MaxArgLen == 2     \* longest language list passed on the command line
MaxRows == 1       \* most headwords of an autosuggestions or emoji blob (nouns: one more)
MaxLexWords == 3   \* most headwords of the four lexicon sources together
MaxVerbs == 2      \* most entries of a verbs blob

----------------------------------------------------------------------------
(* SQLite's text functions (ASCII case mapping only).                      *)

Lowers == <<"a","b","c","d","e","f","g","h","i","j","k","l","m",
            "n","o","p","q","r","s","t","u","v","w","x","y","z">>
Uppers == <<"A","B","C","D","E","F","G","H","I","J","K","L","M",
            "N","O","P","Q","R","S","T","U","V","W","X","Y","Z">>

UpperCh(c) ==
    IF \E i \in 1..Len(Lowers) : Lowers[i] = c
    THEN Uppers[CHOOSE i \in 1..Len(Lowers) : Lowers[i] = c]
    ELSE c

LowerCh(c) ==
    IF \E i \in 1..Len(Uppers) : Uppers[i] = c
    THEN Lowers[CHOOSE i \in 1..Len(Uppers) : Uppers[i] = c]
    ELSE c

UPPER(s) == [i \in 1..Len(s) |-> UpperCh(s[i])]
LOWER(s) == [i \in 1..Len(s) |-> LowerCh(s[i])]
LENGTH(s) == Len(s)

\* SUBSTR(s, 1, 1) and SUBSTR(s, 2) of the merge query.
SubstrFirst(s) == IF Len(s) = 0 THEN <<>> ELSE <<s[1]>>
SubstrRest(s) == IF Len(s) = 0 THEN <<>> ELSE Tail(s)

\* UPPER(SUBSTR(w, 1, 1)) || SUBSTR(w, 2)
CapFirst(w) == UPPER(SubstrFirst(w)) \o SubstrRest(w)

\* w LIKE '%c%'
Like(w, c) == \E i \in 1..Len(w) : w[i] = c

----------------------------------------------------------------------------
(* The database: a set of tables.                                          *)

word_types == <<"nouns", "verbs", "prepositions", "translations",
                "autosuggestions", "emoji_keywords">>

Range(s) == {s[i] : i \in 1..Len(s)}

RECURSIVE Flatten(_)
Flatten(ss) == IF ss = <<>> THEN <<>> ELSE Head(ss) \o Flatten(Tail(ss))

HasTable(db, name) == \E t \in db : t.name = name
Table(db, name) == CHOOSE t \in db : t.name = name
ColIndex(t, c) == CHOOSE i \in 1..Len(t.columns) : t.columns[i] = c

\* CREATE TABLE IF NOT EXISTS word_type (<cols joined by " Text, "> Text,
\* UNIQUE(cols[0])).  An element of cols is the text between two joins: the
\* sequence of the column names it spells out, separated by commas.
create_table(db, word_type, cols_) ==
    IF HasTable(db, word_type)
    THEN db
    ELSE db \cup {[name |-> word_type,
                   columns |-> Flatten(cols_),
                   unique |-> cols_[1],
                   rows |-> {}]}

\* The row collides with a stored row on every column of the UNIQUE constraint.
Conflicts(t, keys_) ==
    \E r \in t.rows :
        \A j \in 1..Len(t.unique) :
            r[ColIndex(t, t.unique[j])] = keys_[ColIndex(t, t.unique[j])]

\* sqlite3.OperationalError: no such table, or a wrong number of values.
InsertRaises(db, word_type, keys_) ==
    \/ ~HasTable(db, word_type)
    \/ Len(keys_) # Len(Table(db, word_type).columns)

\* INSERT OR IGNORE INTO word_type values(?, ..., ?)
table_insert(db, word_type, keys_) ==
    LET t == Table(db, word_type) IN
    IF Conflicts(t, keys_)
    THEN db
    ELSE (db \ {t}) \cup {[t EXCEPT !.rows = @ \cup {keys_}]}

----------------------------------------------------------------------------
(* Per word type column lists and rows (the if/elif chain of the loop).    *)
(* A blob is the sequence of its entries [word, data] in file order; the   *)
(* headwords of a blob are distinct (json.load yields a dict).             *)

Scribe == <<"S","c","r","i","b","e">>
Scribes == <<"S","c","r","i","b","e","s">>
EmptyStr == <<>>

Headwords(blob) == {blob[i].word : i \in 1..Len(blob)}

\* The data of a verb entry is the ordered sequence of its <<slot, form>> pairs.
VerbSlots(d) == [i \in 1..Len(d) |-> d[i][1]]

\* json_data[row][col_name]: the form of the slot, or KeyError.
VerbLookupDefaulting(d, slot) ==
    IF \E i \in 1..Len(d) : d[i][1] = slot
    THEN [found |-> TRUE, value |-> d[CHOOSE i \in 1..Len(d) : d[i][1] = slot][2]]
    ELSE [found |-> TRUE, value |-> EmptyStr]

VerbLookup(d, slot) ==
    IF \E i \in 1..Len(d) : d[i][1] = slot
    THEN [found |-> TRUE, value |-> d[CHOOSE i \in 1..Len(d) : d[i][1] = slot][2]]
    ELSE [found |-> FALSE, value |-> EmptyStr]

\* list(json_data.keys())[0] of an empty verbs blob: IndexError.
ColsRaises(wt, blob) == wt = "verbs" /\ blob = <<>>

Cols(wt, blob) ==
    CASE wt = "nouns" -> << <<"noun", "plural", "form">> >>
      [] wt = "verbs" ->
            << <<"verb">> >> \o
            [i \in 1..Len(blob[1].data) |-> <<VerbSlots(blob[1].data)[i]>>]
      [] wt = "prepositions" -> << <<"preposition", "form">> >>
      [] wt = "translations" -> << <<"word", "translation">> >>
      [] wt = "autosuggestions" ->
            << <<"word">>, <<"suggestion_0">>, <<"suggestion_1">>, <<"suggestion_2">> >>
      [] wt = "emoji_keywords" ->
            << <<"word">>, <<"emoji_0">>, <<"emoji_1">>, <<"emoji_2">> >>

\* keys += [""] * (len(cols) - len(keys))
Pad(ks, n) == ks \o [i \in 1..(n - Len(ks)) |-> EmptyStr]

\* The comprehension over cols[1:] raises KeyError at the first missing slot.
KeysRaises(wt, entry, cols_) ==
    /\ wt = "verbs"
    /\ \E j \in 2..Len(cols_) : ~VerbLookup(entry.data, cols_[j][1]).found

Keys(wt, entry, cols_) ==
    CASE wt = "nouns" -> <<entry.word, entry.data.plural, entry.data.form>>
      [] wt = "verbs" ->
            <<entry.word>> \o
            [j \in 1..(Len(cols_) - 1) |-> VerbLookup(entry.data, cols_[j + 1][1]).value]
      [] wt = "prepositions" -> <<entry.word, entry.data>>
      [] wt = "translations" -> <<entry.word, entry.data>>
      [] wt = "autosuggestions" ->
            Pad(<<entry.word>> \o entry.data, Len(cols_))
      [] wt = "emoji_keywords" ->
            Pad(<<entry.word>> \o [i \in 1..Len(entry.data) |-> entry.data[i].emoji],
                Len(cols_))

\* if "Scribe" not in json_data and lang != "Russian"
SeedsScribeAlways(lang, blob) == TRUE

SeedsScribe(lang, blob) == Scribe \notin Headwords(blob) /\ lang # "Russian"

----------------------------------------------------------------------------
(* The autocomplete_lexicon merge query.                                   *)

LexiconSources == {"nouns", "prepositions", "autosuggestions", "emoji_keywords"}

\* The first column of a table: noun, preposition or word.
FirstColumn(db, name) == {r[1] : r \in Table(db, name).rows}

\* WITH full_lexicon AS (... UNION ... UNION ... UNION ...)
full_lexicon_short_prepositions(db) ==
    {n \in FirstColumn(db, "nouns") : LENGTH(n) > 2}
    \cup {p \in FirstColumn(db, "prepositions") : LENGTH(p) > 1}
    \cup {LOWER(w) : w \in {a \in FirstColumn(db, "autosuggestions") : LENGTH(a) > 2}}
    \cup FirstColumn(db, "emoji_keywords")

full_lexicon(db) ==
    {n \in FirstColumn(db, "nouns") : LENGTH(n) > 2}
    \cup {p \in FirstColumn(db, "prepositions") : LENGTH(p) > 2}
    \cup {LOWER(w) : w \in {a \in FirstColumn(db, "autosuggestions") : LENGTH(a) > 2}}
    \cup FirstColumn(db, "emoji_keywords")

\* The noun column of a LEFT JOIN row that matched no noun.
NULL == <<"NULL">>

\* full_lexicon AS lex LEFT JOIN nouns AS nouns_cap ON ... LEFT JOIN nouns AS
\* nouns_upper ON ...: one row per pair of matching nouns, NULL where none matches.
JoinRows(db) ==
    LET nouns == FirstColumn(db, "nouns")
        Cap(w) == {n \in nouns : CapFirst(w) = n}
        Up(w) == {n \in nouns : UPPER(w) = n}
    IN  {[word |-> w, nouns_cap |-> nc, nouns_upper |-> nu] :
            <<w, nc, nu>> \in
                UNION {{w} \X (IF Cap(w) = {} THEN {NULL} ELSE Cap(w))
                           \X (IF Up(w) = {} THEN {NULL} ELSE Up(w)) :
                       w \in full_lexicon(db)}}

\* CASE WHEN ... THEN nouns_cap.noun WHEN ... THEN nouns_upper.noun ELSE lex.word END
CaseWordUpperFirst(j) ==
    IF j.nouns_upper # NULL /\ UPPER(j.word) = j.nouns_upper
    THEN j.nouns_upper
    ELSE IF j.nouns_cap # NULL /\ CapFirst(j.word) = j.nouns_cap
    THEN j.nouns_cap
    ELSE j.word

CaseWord(j) ==
    IF j.nouns_cap # NULL /\ CapFirst(j.word) = j.nouns_cap
    THEN j.nouns_cap
    ELSE IF j.nouns_upper # NULL /\ UPPER(j.word) = j.nouns_upper
    THEN j.nouns_upper
    ELSE j.word

\* WHERE LENGTH(lex.word) > 1 AND lex.word NOT LIKE '%-%' AND ...
WhereKeepsApostrophe(w) ==
    /\ LENGTH(w) > 1
    /\ ~Like(w, "-")
    /\ ~Like(w, "/")
    /\ ~Like(w, "(")
    /\ ~Like(w, ")")
    /\ ~Like(w, "\"")
    /\ ~Like(w, "ldquo")
    /\ ~Like(w, "bdquo")
    /\ ~Like(w, "rdquo")

Where(w) ==
    /\ LENGTH(w) > 1
    /\ ~Like(w, "-")
    /\ ~Like(w, "/")
    /\ ~Like(w, "(")
    /\ ~Like(w, ")")
    /\ ~Like(w, "\"")
    /\ ~Like(w, "ldquo")
    /\ ~Like(w, "bdquo")
    /\ ~Like(w, "rdquo")
    /\ ~Like(w, "'")

\* The query names a table the database lacks: sqlite3.OperationalError.
QueryRaises(db) == \E s \in LexiconSources : ~HasTable(db, s)

\* SELECT DISTINCT CASE ... END FROM ... WHERE ...
LexiconQuery(db) == {CaseWord(j) : j \in {k \in JoinRows(db) : Where(k.word)}}

----------------------------------------------------------------------------
(* The script.                                                             *)

AllNames == {"German", "Russian", "Klingon"}

NoFile == [exists |-> FALSE, tables |-> {}]
NewFile == [exists |-> TRUE, tables |-> {}]
NoConnection == [open |-> FALSE, in_transaction |-> FALSE, tables |-> {}]
None == [none |-> TRUE, list |-> <<>>]
Some(l) == [none |-> FALSE, list |-> l]

\* The keys of a dict built from a list: first occurrences, in order.
RECURSIVE DictKeys(_)
DictKeys(l) ==
    IF l = <<>> THEN <<>>
    ELSE LET init == DictKeys(SubSeq(l, 1, Len(l) - 1)) IN
         IF l[Len(l)] \in Range(init) THEN init ELSE Append(init, l[Len(l)])

\* set(arg).issubset(current_languages)
ArgAcceptedUnchecked(arg) == arg.kind = "list"

ArgAccepted(arg) ==
    arg.kind = "list" /\ Range(arg.list) \subseteq Range(current_languages)

CurLang == language_word_type_dict[li].lang
CurWts == language_word_type_dict[li].wts
CurWt == CurWts[wi]

Raise(e) == pc' = "raised" /\ error' = e

\* A statement outside a transaction is committed as it executes.
Autocommit(tables) ==
    IF conn.in_transaction THEN files
    ELSE [files EXCEPT ![CurLang].tables = tables]

\* Lines 40-72: the optional language list.
ParseArgs ==
    /\ pc = "args"
    /\ IF Len(argv) = 2
       THEN IF ArgAccepted(argv[2])
            THEN /\ languages' = Some(argv[2].list)
                 /\ pc' = "discover"
                 /\ error' = error
            ELSE /\ languages' = languages
                 /\ Raise("ValueError")
       ELSE /\ languages' = None
            /\ pc' = "discover"
            /\ error' = error
    /\ UNCHANGED <<argv, current_languages, et_files, files,
                   language_word_type_dict, li, wi, ri, json_data, cols, keys,
                   conn>>

\* Lines 72-85: the word types found on disk for each language to update.
Discover ==
    /\ pc = "discover"
    /\ LET languages_update ==
               IF languages.none THEN current_languages ELSE languages.list
           order == DictKeys(languages_update)
       IN  language_word_type_dict' =
               [i \in 1..Len(order) |->
                   [lang |-> order[i], wts |-> et_files[order[i]].listing]]
    /\ li' = 1
    /\ pc' = "lang"
    /\ UNCHANGED <<argv, current_languages, et_files, files, languages, wi, ri,
                   json_data, cols, keys, conn, error>>

\* Lines 91, 307-308: a language without word types is skipped.
SkipLanguage ==
    /\ pc = "lang"
    /\ li <= Len(language_word_type_dict)
    /\ CurWts = <<>>
    /\ li' = li + 1
    /\ UNCHANGED <<argv, current_languages, et_files, files, languages,
                   language_word_type_dict, pc, wi, ri, json_data, cols, keys,
                   conn, error>>

\* Lines 91-97: an existing database file is removed.
RemoveExisting ==
    /\ pc = "lang"
    /\ li <= Len(language_word_type_dict)
    /\ CurWts # <<>>
    /\ files' = IF files[CurLang].exists
                THEN [files EXCEPT ![CurLang] = NoFile]
                ELSE files
    /\ pc' = "connect"
    /\ UNCHANGED <<argv, current_languages, et_files, languages,
                   language_word_type_dict, li, wi, ri, json_data, cols, keys,
                   conn, error>>

\* Lines 99-102: sqlite3.connect creates the file.
Connect ==
    /\ pc = "connect"
    /\ files' = [files EXCEPT ![CurLang] = NewFile]
    /\ conn' = [open |-> TRUE, in_transaction |-> FALSE, tables |-> {}]
    /\ wi' = 1
    /\ pc' = "category"
    /\ UNCHANGED <<argv, current_languages, et_files, languages,
                   language_word_type_dict, li, ri, json_data, cols, keys,
                   error>>

\* Lines 139-147 (and 160-162, 171-172, ...): the blob is read, the column
\* list is built and the table is created.
StartCategory ==
    /\ pc = "category"
    /\ wi <= Len(CurWts)
    /\ LET blob == et_files[CurLang].data[CurWt] IN
       /\ json_data' = blob
       /\ IF ColsRaises(CurWt, blob)
          THEN /\ cols' = << <<"verb">> >>
               /\ Raise("IndexError")
               /\ UNCHANGED <<conn, files, ri>>
          ELSE /\ cols' = Cols(CurWt, blob)
               /\ conn' = [conn EXCEPT
                              !.tables = create_table(@, CurWt, Cols(CurWt, blob))]
               /\ files' = Autocommit(create_table(conn.tables, CurWt,
                                                   Cols(CurWt, blob)))
               /\ ri' = 1
               /\ pc' = "rows"
               /\ error' = error
    /\ UNCHANGED <<argv, current_languages, et_files, languages,
                   language_word_type_dict, li, wi, keys>>

\* One iteration of "for row in json_data": the row is built and inserted.
InsertRow ==
    /\ pc = "rows"
    /\ ri <= Len(json_data)
    /\ LET entry == json_data[ri]
           k == Keys(CurWt, entry, cols)
       IN  IF KeysRaises(CurWt, entry, cols)
           THEN /\ keys' = <<entry.word>>
                /\ Raise("KeyError")
                /\ UNCHANGED <<conn, ri>>
           ELSE /\ keys' = k
                /\ IF InsertRaises(conn.tables, CurWt, k)
                   THEN /\ Raise("OperationalError")
                        /\ UNCHANGED <<conn, ri>>
                   ELSE /\ conn' = [conn EXCEPT
                                       !.tables = table_insert(@, CurWt, k),
                                       !.in_transaction = TRUE]
                        /\ ri' = ri + 1
                        /\ UNCHANGED <<pc, error>>
    /\ UNCHANGED <<argv, current_languages, et_files, files, languages,
                   language_word_type_dict, li, wi, json_data, cols>>

\* The end of a word type: the Scribe entry of nouns (lines 152-153) and
\* connection.commit().
FinishCategory ==
    /\ pc = "rows"
    /\ ri > Len(json_data)
    /\ LET seeded ==
               IF CurWt = "nouns" /\ SeedsScribe(CurLang, json_data)
               THEN table_insert(conn.tables, CurWt, <<Scribe, Scribes, EmptyStr>>)
               ELSE conn.tables
       IN  /\ conn' = [conn EXCEPT !.tables = seeded, !.in_transaction = FALSE]
           /\ files' = [files EXCEPT ![CurLang].tables = seeded]
    /\ wi' = wi + 1
    /\ pc' = "category"
    /\ UNCHANGED <<argv, current_languages, et_files, languages,
                   language_word_type_dict, li, ri, json_data, cols, keys,
                   error>>

\* Lines 212-305: the autocomplete_lexicon table is created and filled.
MergeLexicon ==
    /\ pc = "category"
    /\ wi > Len(CurWts)
    /\ cols' = << <<"word">> >>
    /\ LET created == create_table(conn.tables, "autocomplete_lexicon",
                                   << <<"word">> >>)
           t == Table(created, "autocomplete_lexicon")
           filled == (created \ {t})
                     \cup {[t EXCEPT !.rows = @ \cup {<<w>> : w \in LexiconQuery(created)}]}
       IN  IF QueryRaises(created)
           THEN /\ conn' = [conn EXCEPT !.tables = created]
                /\ files' = Autocommit(created)
                /\ Raise("OperationalError")
                /\ li' = li
           ELSE /\ conn' = [conn EXCEPT !.tables = filled]
                /\ files' = [files EXCEPT ![CurLang].tables = filled]
                /\ li' = li + 1
                /\ pc' = "lang"
                /\ error' = error
    /\ UNCHANGED <<argv, current_languages, et_files, languages,
                   language_word_type_dict, wi, ri, json_data, keys>>

\* The language loop is exhausted: the script ends normally.
Finished ==
    /\ pc = "lang"
    /\ li > Len(language_word_type_dict)
    /\ pc' = "done"
    /\ conn' = NoConnection
    /\ UNCHANGED <<argv, current_languages, et_files, files, languages,
                   language_word_type_dict, li, wi, ri, json_data, cols, keys,
                   error>>

\* An uncaught exception ends the process: the connection is dropped without
\* a commit and its open transaction is rolled back.
TerminateCommitting ==
    /\ pc = "raised"
    /\ pc' = "error"
    /\ conn' = NoConnection
    /\ files' = IF conn.open
                THEN [files EXCEPT ![CurLang].tables = conn.tables]
                ELSE files
    /\ UNCHANGED <<argv, current_languages, et_files, languages,
                   language_word_type_dict, li, wi, ri, json_data, cols, keys,
                   error>>

Terminate ==
    /\ pc = "raised"
    /\ pc' = "error"
    /\ conn' = NoConnection
    /\ UNCHANGED <<argv, current_languages, et_files, files, languages,
                   language_word_type_dict, li, wi, ri, json_data, cols, keys,
                   error>>

Next ==
    \/ ParseArgs
    \/ Discover
    \/ SkipLanguage
    \/ RemoveExisting
    \/ Connect
    \/ StartCategory
    \/ InsertRow
    \/ FinishCategory
    \/ MergeLexicon
    \/ Finished
    \/ Terminate

----------------------------------------------------------------------------
(* Inputs: command lines, formatted_data directories, existing databases.  *)

NounEntry(w, pl) == [word |-> w, data |-> [plural |-> pl, form |-> EmptyStr]]
Entry(w, d) == [word |-> w, data |-> d]

\* The entries of universe U whose positions are in I, in U's order.
RECURSIVE Pick(_, _, _)
Pick(U, I, n) ==
    IF n = 0 THEN <<>>
    ELSE Pick(U, I, n - 1) \o (IF n \in I THEN <<U[n]>> ELSE <<>>)

\* The blobs of at most max entries drawn from U.
Blobs(U, max) ==
    {Pick(U, I, Len(U)) :
        I \in {J \in SUBSET (1..Len(U)) : Cardinality(J) <= max}}

chat == <<"c","h","a","t">>
chats == <<"c","h","a","t","s">>
auf == <<"a","u","f">>
hund == <<"h","u","n","d">>
Hunde == <<"H","u","n","d","e">>
hundeartig == <<"h","u","n","d","e","a","r","t","i","g">>
smile == <<"s","m","i","l","e">>
Emoji(e) == [emoji |-> e]

\* Verb entries: headword i with the slots of one of the slot lists.
VerbWord(i) == <<"v", "e", "r", "b", Lowers[i]>>
SlotLists == {<<"FPS">>, <<"FPS", "SPS">>}
VerbEntry(i, slots) ==
    Entry(VerbWord(i), [j \in 1..Len(slots) |-> <<slots[j], VerbWord(i) \o <<"s">>>>])
VerbBlobs ==
    UNION {{[i \in 1..n |-> VerbEntry(i, f[i])] : f \in [1..n -> SlotLists]} :
           n \in 0..MaxVerbs}
GoodVerbs == <<VerbEntry(1, <<"FPS", "SPS">>)>>

NounsSmall == <<NounEntry(chat, chats), NounEntry(Scribe, Scribe)>>
AutosSmall == <<Entry(hund, <<Hunde, hundeartig>>),
                Entry(auf, <<>>),
                Entry(chat, <<chats, chat, hund>>)>>
EmojisSmall == <<Entry(smile, <<Emoji(<<"E1">>)>>),
                 Entry(chat, <<>>),
                 Entry(hund, <<Emoji(<<"E1">>), Emoji(<<"E2">>), Emoji(<<"E3">>)>>)>>

Dir(listing, n, v, p, t, a, e) ==
    [listing |-> listing,
     data |-> [nouns |-> n, verbs |-> v, prepositions |-> p, translations |-> t,
               autosuggestions |-> a, emoji_keywords |-> e]]

FixedDir(listing) ==
    Dir(listing, <<NounEntry(chat, chats)>>, GoodVerbs, <<Entry(auf, EmptyStr)>>,
        <<Entry(chat, <<"c","a","t">>)>>, <<AutosSmall[1]>>, <<EmojisSmall[1]>>)

\* Directory listings (os.listdir order is arbitrary).
Listings ==
    {<<>>,
     <<"nouns">>,
     <<"emoji_keywords", "nouns">>,
     <<"verbs", "translations">>,
     <<"nouns", "prepositions", "autosuggestions", "emoji_keywords">>,
     word_types}

\* Orchestration: fixed blobs, every listing.
DirsOrch == {FixedDir(l) : l \in Listings}

\* Row mapping: every word type present, varied blobs.
DirsRows ==
    {Dir(word_types, n, v, <<Entry(auf, EmptyStr)>>,
         <<Entry(chat, <<"c","a","t">>)>>, a, e) :
        n \in Blobs(NounsSmall, MaxRows + 1),
        v \in VerbBlobs,
        a \in Blobs(AutosSmall, MaxRows),
        e \in Blobs(EmojisSmall, MaxRows)}
    \cup {FixedDir(<<>>)}

\* Lexicon merge: words over a, b, c in several casings and with the
\* punctuation of the WHERE clause.
NounsLex ==
    <<NounEntry(<<"A">>, <<>>), NounEntry(<<"A","b">>, <<>>),
      NounEntry(<<"A","B">>, <<>>), NounEntry(<<"A","b","c">>, <<>>),
      NounEntry(<<"A","B","C">>, <<>>), NounEntry(<<"A","-","b">>, <<>>)>>
PrepsLex ==
    <<Entry(<<"a","b">>, <<>>), Entry(<<"a","b","c">>, <<>>),
      Entry(<<"a","/","b">>, <<>>), Entry(<<"(","a","b">>, <<>>),
      Entry(<<"a","\"","b">>, <<>>), Entry(<<"a","-","b">>, <<>>)>>
AutosLex ==
    <<Entry(<<"A","B","C">>, <<>>), Entry(<<"A","b">>, <<>>),
      Entry(<<"a",")","b">>, <<>>), Entry(<<"a","ldquo","b">>, <<>>)>>
EmojisLex ==
    <<Entry(<<"a">>, <<>>), Entry(<<"a","b">>, <<>>),
      Entry(<<"a","b","c">>, <<>>), Entry(<<"a","'","b">>, <<>>),
      Entry(<<"a","bdquo">>, <<>>), Entry(<<"a","rdquo">>, <<>>)>>

\* The sets of at most k positions of 1..n.
RECURSIVE Positions(_, _)
Positions(n, k) ==
    IF k = 0 THEN {{}}
    ELSE Positions(n, k - 1)
         \cup {J \cup {x} : J \in Positions(n, k - 1), x \in 1..n}

\* At most MaxLexWords headwords over the four sources together.
LexUniverse == NounsLex \o PrepsLex \o AutosLex \o EmojisLex
LexBlob(I, from, U) == Pick(U, {i - from : i \in I}, Len(U))
DirsLex ==
    {Dir(<<"nouns", "prepositions", "autosuggestions", "emoji_keywords">>,
         LexBlob(I, 0, NounsLex),
         GoodVerbs,
         LexBlob(I, Len(NounsLex), PrepsLex),
         <<Entry(chat, <<"c","a","t">>)>>,
         LexBlob(I, Len(NounsLex) + Len(PrepsLex), AutosLex),
         LexBlob(I, Len(NounsLex) + Len(PrepsLex) + Len(AutosLex), EmojisLex)) :
        I \in Positions(Len(LexUniverse), MaxLexWords)}

\* sys.argv[1] as ast.literal_eval reads it.
Malformed == [kind |-> "malformed", list |-> <<>>]
NotList == [kind |-> "notlist", list |-> <<>>]
ListArg(l) == [kind |-> "list", list |-> l]
ArgValues ==
    {Malformed, NotList}
    \cup {ListArg(l) : l \in UNION {[1..n -> AllNames] : n \in 0..MaxArgLen}}
NoArgs == <<"data_to_sqlite.py">>
Argvs ==
    {NoArgs}
    \cup {<<"data_to_sqlite.py", a>> : a \in ArgValues}
    \cup {<<"data_to_sqlite.py", ListArg(<<"German">>), ListArg(<<"Russian">>)>>}

\* A database left by an earlier run.
StaleFile ==
    [exists |-> TRUE,
     tables |-> {[name |-> "nouns", columns |-> <<"noun", "plural", "form">>,
                  unique |-> <<"noun", "plural", "form">>,
                  rows |-> {<<<<"o","l","d">>, EmptyStr, EmptyStr>>}]}]

Known(args, langs, dirs, dbs) ==
    /\ argv \in args
    /\ current_languages \in langs
    /\ et_files \in dirs
    /\ files \in dbs
    /\ languages = None
    /\ language_word_type_dict = <<>>
    /\ pc = "args"
    /\ li = 0
    /\ wi = 0
    /\ ri = 0
    /\ json_data = <<>>
    /\ cols = <<>>
    /\ keys = <<>>
    /\ conn = NoConnection
    /\ error = "none"

\* Two known languages, every command line, every listing, fixed blobs.
Init ==
    Known(Argvs,
          {<<"German", "Russian">>},
          {[German |-> g, Russian |-> r, Klingon |-> FixedDir(<<"nouns">>)] :
              g \in DirsOrch, r \in DirsOrch},
          {[German |-> g, Russian |-> r, Klingon |-> NoFile] :
              g \in {NoFile, StaleFile}, r \in {NoFile, StaleFile}})

\* One language at a time, German or Russian, with varied blobs.
InitRows ==
    Known({NoArgs, <<"data_to_sqlite.py", Malformed>>},
          {<<"German">>, <<"Russian">>},
          {[German |-> d, Russian |-> d, Klingon |-> FixedDir(<<>>)] :
              d \in DirsRows},
          {[German |-> g, Russian |-> NoFile, Klingon |-> NoFile] :
              g \in {NoFile, StaleFile}})

\* German with varied lexicon sources; Russian has no data.
InitLex ==
    Known({NoArgs, <<"data_to_sqlite.py", Malformed>>},
          {<<"German", "Russian">>},
          {[German |-> d, Russian |-> FixedDir(<<>>), Klingon |-> FixedDir(<<>>)] :
              d \in DirsLex},
          {[German |-> StaleFile, Russian |-> NoFile, Klingon |-> NoFile]})

Spec == Init /\ [][Next]_vars
SpecRows == InitRows /\ [][Next]_vars
SpecLex == InitLex /\ [][Next]_vars

----------------------------------------------------------------------------
(* Vocabulary of the properties.                                           *)

Started == li \in 1..Len(language_word_type_dict)

\* The build of the i-th language of the run has completed.
Built(i) ==
    /\ i \in 1..Len(language_word_type_dict)
    /\ i < li
    /\ language_word_type_dict[i].wts # <<>>

BuiltDb(i) == files[language_word_type_dict[i].lang].tables
BuiltLexicon(i) == FirstColumn(BuiltDb(i), "autocomplete_lexicon")
BuiltNouns(i) == FirstColumn(BuiltDb(i), "nouns")

Forbidden == {"-", "/", "(", ")", "\"", "ldquo", "bdquo", "rdquo", "'"}
Clean(w) == \A i \in 1..Len(w) : w[i] \notin Forbidden

\* The casing a token is resolved to against a set of nouns.
Resolved(c, nouns) ==
    IF CapFirst(c) \in nouns THEN CapFirst(c)
    ELSE IF UPPER(c) \in nouns THEN UPPER(c)
    ELSE c

SlotSet(entry) == {entry.data[i][1] : i \in 1..Len(entry.data)}

\* The noun blob of the i-th language of the run.
NounData(i) == et_files[language_word_type_dict[i].lang].data.nouns

----------------------------------------------------------------------------
(* C1 *)

\* C1: the lexicon merge of a language whose word types are a non-empty
\* subset that omits a lexicon source does not raise an error (the absent
\* source counts as empty).
C1_MergeToleratesMissingSource ==
    ~ ( /\ Started
        /\ pc = "raised"
        /\ CurWts # <<>>
        /\ wi > Len(CurWts)
        /\ \E s \in LexiconSources : s \notin Range(CurWts) )

----------------------------------------------------------------------------
(* C2 *)

ArgValidated ==
    Len(argv) = 2 =>
        /\ argv[2].kind = "list"
        /\ \A i \in 1..Len(argv[2].list) :
               \E j \in 1..Len(current_languages) :
                   current_languages[j] = argv[2].list[i]

Selected ==
    IF Len(argv) = 2
    THEN {argv[2].list[i] : i \in 1..Len(argv[2].list)}
    ELSE {current_languages[j] : j \in 1..Len(current_languages)}

\* C2: a step removes or creates the database file of language L only if
\* the language list passed validation, L is selected and L has at least
\* one word type on disk.
C2_FilesTouchedOnlyWhenSelected ==
    [][\A L \in AllNames :
          files'[L].exists # files[L].exists =>
              /\ ArgValidated
              /\ L \in Selected
              /\ et_files[L].listing # <<>>]_vars

\* A file was created for a language named in a validated list.
C2_Witness ==
    /\ Len(argv) = 2
    /\ pc = "category"
    /\ files[CurLang] = NewFile
    /\ \E L \in AllNames : L # CurLang /\ et_files[L].listing # <<>>

----------------------------------------------------------------------------
(* C3 *)

\* The run ended with an error raised at row ri of a word type, after
\* ri - 1 rows of it were inserted.
MidLoadFailure ==
    /\ pc = "error"
    /\ Started
    /\ wi \in 1..Len(CurWts)
    /\ ri \in 2..Len(json_data)

\* C3 as stated: after a failure in the middle of a word type, the rows
\* inserted before the failure are in the database file.
C3_PartialRowsCommitted ==
    MidLoadFailure =>
        \A i \in 1..(ri - 1) :
            \E r \in Table(files[CurLang].tables, CurWt).rows :
                r[1] = json_data[i].word

\* C3, amended: after a failure in the middle of a word type, none of the
\* rows inserted before the failure is in the database file; the table of
\* the word type is there and empty.
C3_PartialRowsRolledBack ==
    MidLoadFailure =>
        /\ HasTable(files[CurLang].tables, CurWt)
        /\ Table(files[CurLang].tables, CurWt).rows = {}

C3_Witness == MidLoadFailure /\ error = "KeyError"

----------------------------------------------------------------------------
(* C4 *)

\* C4: every table of the database being built has its uniqueness
\* constraint on its first column alone, and no two of its rows share their
\* first value.
C4_UniqueFirstColumn ==
    \A t \in conn.tables :
        /\ t.unique = <<t.columns[1]>>
        /\ \A r1 \in t.rows : \A r2 \in t.rows : r1[1] = r2[1] => r1 = r2

----------------------------------------------------------------------------
(* C5 *)

\* C5: the row built for a headword has as many elements as the column list
\* of its word type, starts with the headword, and is padded with empty
\* strings for autosuggestions and emoji_keywords.
C5_RowMatchesColumns ==
    (Started /\ pc = "rows" /\ ri > 1) =>
        /\ Len(keys) = Len(cols)
        /\ keys[1] = json_data[ri - 1].word
        /\ CurWt \in {"autosuggestions", "emoji_keywords"} =>
               \A j \in (Len(json_data[ri - 1].data) + 2)..Len(keys) :
                   keys[j] = EmptyStr

----------------------------------------------------------------------------
(* C6 *)

\* C6: in a built database, every candidate c that passes the filter is
\* resolved as follows: if c with its first character upper-cased is a noun,
\* the lexicon has that noun and, when c differs from it, not c; otherwise
\* if c fully upper-cased is a noun, the lexicon has that noun and not c;
\* otherwise the lexicon has c.
C6_CasingResolution ==
    \A i \in 1..Len(language_word_type_dict) :
        Built(i) =>
            \A c \in full_lexicon(BuiltDb(i)) :
                Where(c) =>
                    IF CapFirst(c) \in BuiltNouns(i)
                    THEN /\ CapFirst(c) \in BuiltLexicon(i)
                         /\ c # CapFirst(c) => c \notin BuiltLexicon(i)
                    ELSE IF UPPER(c) \in BuiltNouns(i)
                    THEN /\ UPPER(c) \in BuiltLexicon(i)
                         /\ c \notin BuiltLexicon(i)
                    ELSE c \in BuiltLexicon(i)

\* A candidate matches one noun by its first character and another in
\* upper case.
C6_Witness ==
    \E i \in 1..Len(language_word_type_dict) :
        /\ Built(i)
        /\ \E c \in full_lexicon(BuiltDb(i)) :
               /\ Where(c)
               /\ CapFirst(c) \in BuiltNouns(i)
               /\ UPPER(c) \in BuiltNouns(i)
               /\ CapFirst(c) # UPPER(c)
               /\ c # CapFirst(c)

----------------------------------------------------------------------------
(* C7 *)

\* C7: no word of a built autocomplete_lexicon has length <= 1 or contains
\* one of the forbidden characters.
C7_LexiconWordsAreClean ==
    \A i \in 1..Len(language_word_type_dict) :
        Built(i) => \A w \in BuiltLexicon(i) : Len(w) > 1 /\ Clean(w)

\* A candidate with a forbidden character matched a noun, and another was
\* too short.
C7_Witness ==
    \E i \in 1..Len(language_word_type_dict) :
        /\ Built(i)
        /\ \E c \in full_lexicon(BuiltDb(i)) :
               ~Clean(c) /\ CapFirst(c) \in BuiltNouns(i) /\ CapFirst(c) # c
        /\ \E c \in full_lexicon(BuiltDb(i)) : Len(c) <= 1

----------------------------------------------------------------------------
(* C8 *)

\* C8 as stated: a two-character preposition is not in the lexicon, a
\* three-character preposition without forbidden characters is.
C8_LengthFilterAsStated ==
    \A i \in 1..Len(language_word_type_dict) :
        Built(i) =>
            \A p \in FirstColumn(BuiltDb(i), "prepositions") :
                /\ Len(p) = 2 => p \notin BuiltLexicon(i)
                /\ (Len(p) = 3 /\ Clean(p)) => p \in BuiltLexicon(i)

\* C8, amended: a two-character preposition is in the lexicon only if an
\* emoji keyword resolves to it; a three-character preposition without
\* forbidden characters is in the lexicon in its resolved casing.
C8_LengthFilter ==
    \A i \in 1..Len(language_word_type_dict) :
        Built(i) =>
            \A p \in FirstColumn(BuiltDb(i), "prepositions") :
                /\ (Len(p) = 2 /\ p \in BuiltLexicon(i)) =>
                       \E e \in FirstColumn(BuiltDb(i), "emoji_keywords") :
                           Resolved(e, BuiltNouns(i)) = p
                /\ (Len(p) = 3 /\ Clean(p)) =>
                       Resolved(p, BuiltNouns(i)) \in BuiltLexicon(i)

\* A two-character preposition and a three-character one are both in the
\* lexicon.
C8_Witness ==
    \E i \in 1..Len(language_word_type_dict) :
        /\ Built(i)
        /\ \E p \in FirstColumn(BuiltDb(i), "prepositions") :
               Len(p) = 2 /\ p \in BuiltLexicon(i)
        /\ \E q \in FirstColumn(BuiltDb(i), "prepositions") :
               Len(q) = 3 /\ Clean(q) /\ q \in BuiltLexicon(i)

----------------------------------------------------------------------------
(* C9 *)

ScribeRows(i) == {r \in Table(BuiltDb(i), "nouns").rows : r[1] = Scribe}

\* C9 as stated: a built language other than Russian has the noun row
\* Scribe / Scribes; the build of Russian adds no Scribe row.
C9_ScribeAlwaysSeeded ==
    \A i \in 1..Len(language_word_type_dict) :
        Built(i) =>
            IF language_word_type_dict[i].lang # "Russian"
            THEN \E r \in ScribeRows(i) : r[2] = Scribes
            ELSE Scribe \notin Headwords(NounData(i)) => ScribeRows(i) = {}

\* C9, amended: a built language other than Russian has exactly one noun row
\* Scribe: its own entry when its noun data has one, Scribe / Scribes
\* otherwise; the build of Russian adds no Scribe row.
C9_ScribeSeeded ==
    \A i \in 1..Len(language_word_type_dict) :
        Built(i) =>
            LET own == {<<NounData(i)[k].word, NounData(i)[k].data.plural,
                          NounData(i)[k].data.form>> :
                            k \in {n \in 1..Len(NounData(i)) :
                                      NounData(i)[n].word = Scribe}}
            IN  IF language_word_type_dict[i].lang # "Russian" /\ own = {}
                THEN ScribeRows(i) = {<<Scribe, Scribes, EmptyStr>>}
                ELSE ScribeRows(i) = own

\* German was built from noun data that has its own Scribe entry.
C9_Witness ==
    \E i \in 1..Len(language_word_type_dict) :
        /\ Built(i)
        /\ language_word_type_dict[i].lang = "German"
        /\ Scribe \in Headwords(NounData(i))

----------------------------------------------------------------------------
(* C10 *)

\* The verbs of the current language are being mapped, or their mapping
\* ended the run.
InVerbs ==
    /\ Started
    /\ wi \in 1..Len(CurWts)
    /\ CurWt = "verbs"
    /\ pc \in {"rows", "raised", "error"}
    /\ error # "IndexError"

VerbColumns == << <<"verb">> >> \o [j \in 1..Len(json_data[1].data) |->
                                       <<json_data[1].data[j][1]>>]

\* C10 as stated: the verb columns are the headword and the slots of the
\* first entry, and every entry that was mapped to a row has the key set of
\* the first entry.
C10_KeySetsEqual ==
    InVerbs =>
        /\ cols = VerbColumns
        /\ \A i \in 1..(ri - 1) : SlotSet(json_data[i]) = SlotSet(json_data[1])

\* C10, amended: the verb columns are the headword and the slots of the
\* first entry; an entry that lacks one of these slots ends the mapping with
\* a KeyError and is not mapped; an entry that has them is mapped to their
\* forms, extra keys dropped.
C10_MissingKeyFails ==
    InVerbs =>
        /\ cols = VerbColumns
        /\ \A i \in 1..(ri - 1) : SlotSet(json_data[1]) \subseteq SlotSet(json_data[i])
        /\ pc # "rows" =>
               /\ error = "KeyError"
               /\ ~(SlotSet(json_data[1]) \subseteq SlotSet(json_data[ri]))
        /\ (pc = "rows" /\ ri > 1) =>
               /\ Len(keys) = Len(cols)
               /\ keys[1] = json_data[ri - 1].word
               /\ \A j \in 2..Len(cols) :
                      \E k \in 1..Len(json_data[ri - 1].data) :
                          json_data[ri - 1].data[k] = <<cols[j][1], keys[j]>>

\* The second verb entry lacks a slot of the first: KeyError after one row.
C10_Witness == InVerbs /\ pc = "raised" /\ error = "KeyError" /\ ri > 1

====
